---- MODULE Spec2Model ----
(***************************************************************************)
(* A model of the fracserv tile server (src/src/fracserv/fracserv.go):     *)
(* the request routing of IndexServer, the two paths of drawFractal, the   *)
(* cache-key normalisation fsNameFromURL and the detached disk writer      *)
(* savePngFromCache.                                                       *)
(*                                                                         *)
(* Every HTTP request runs on its own goroutine, so a request is a process *)
(* r \in ReqIds with a program counter pc[r]; the goroutine started by     *)
(* `go savePngFromCache(cacheKey)` of request r is the task r, with its    *)
(* own counter tpc[r].  Steps are cut where a goroutine touches shared     *)
(* state: the tile cache, the file system, the clock.                      *)
(*                                                                         *)
(* Strings are sequences of runes (one-character strings), which is how    *)
(* strings.Map and the path functions see them.                            *)
(*                                                                         *)
(* The navigator and the colour mapper of src/src/fractal/fractal.go are   *)
(* pure and have specifications of their own, SpecNav and SpecHSV.         *)
(***************************************************************************)
EXTENDS Integers, Sequences, FiniteSets, TLC

\* ----------------------------------------------------------------- bounds
\* Requests accepted in one run of the server.
MaxRequests == 2
\* The clock stops advancing at MaxTime (seconds since the start of the run).
MaxTime == 2
\* Longest URL the key-normalisation specification draws.
MaxLen == 3
\* Most Translate and Zoom calls made on one navigator.
MaxOps == 2

\* -------------------------------------------------------------- constants
\* time.Hour, in seconds (the resolution of an HTTP date).
Hour == 3600
\* The offsets from UTC (seconds) the server's local time zone may have:
\* time.Now() returns a time in time.Local.
LocalOffsets == {0, 3600}
\* The largest value of Go's int where it is 32 bits wide (GOARCH 386, arm);
\* where it is 64 bits wide the same arithmetic wraps at 2^63.
MaxInt == 2147483647
\* The channel value of a colour at full intensity, and the opaque alpha.
Full == 255

ReqIds == 1..MaxRequests

Range(s) == {s[i] : i \in 1..Len(s)}

Min(a, b) == IF a < b THEN a ELSE b

\* ---------------------------------------------------------------- strings
debug == <<"d", "e", "b", "u", "g">>
solid == <<"s", "o", "l", "i", "d">>
mandelbrot == <<"m", "a", "n", "d", "e", "l", "b", "r", "o", "t">>
julia == <<"j", "u", "l", "i", "a">>
\* A name the registry does not hold (its entry is commented out).
glynn == <<"g", "l", "y", "n", "n">>

\* The keys of the map `factory`.
factory == {debug, solid, mandelbrot, julia}

\* The requests the clients send: URL path and raw query.
Requests ==
  { [Path |-> <<"/">> \o mandelbrot,
     RawQuery |-> <<"z", "=", "2", "&", "c", "=", "0", ",", "0">>],
    [Path |-> <<"/">> \o mandelbrot,
     RawQuery |-> <<"z", "=", "2", ",", "c", "=", "0", ",", "0">>],
    [Path |-> <<"/">> \o glynn, RawQuery |-> <<"z", "=", "2">>],
    [Path |-> <<"/">> \o julia, RawQuery |-> <<>>],
    [Path |-> <<"/">> \o julia, RawQuery |-> <<"&">>],
    [Path |-> <<"/">>, RawQuery |-> <<"z", "=", "2">>] }

NoURL == [Path |-> <<>>, RawQuery |-> <<>>]

\* req.URL.RequestURI(): the path, then "?" and the raw query when there is one.
RequestURI(u) ==
  u.Path \o (IF u.RawQuery # <<>> THEN <<"?">> \o u.RawQuery ELSE <<>>)

\* The index of the first occurrence of rune c in s, 0 when there is none.
IndexRune(s, c) ==
  IF c \in Range(s) THEN CHOOSE i \in 1..Len(s) : s[i] = c /\ \A j \in 1..(i-1) : s[j] # c
  ELSE 0

\* The index of the last occurrence of rune c in s, 0 when there is none.
LastIndexRune(s, c) ==
  IF c \in Range(s)
  THEN CHOOSE i \in 1..Len(s) : s[i] = c /\ \A j \in (i+1)..Len(s) : s[j] # c
  ELSE 0

RECURSIVE Split(_, _)
\* strings.Split(s, sep) for a one-rune separator.
Split(s, sep) ==
  LET i == IndexRune(s, sep)
  IN IF i = 0 THEN <<s>>
     ELSE <<SubSeq(s, 1, i - 1)>> \o Split(SubSeq(s, i + 1, Len(s)), sep)

\* The keys of req.URL.Query(): the raw query is cut at "&", empty pieces are
\* skipped, and the key of a piece is what precedes its first "=".
QueryKeys(raw) ==
  LET pieces == Range(Split(raw, "&"))
      KeyOf(p) == LET i == IndexRune(p, "=")
                  IN IF i = 0 THEN p ELSE SubSeq(p, 1, i - 1)
  IN {KeyOf(p) : p \in {q \in pieces : q # <<>>}}

\* cleanup with the case '&' returning the wrong rune.
cleanupAmpToSlash(r) ==
  CASE r = "?" -> "/"
    [] r = "&" -> "/"
    [] OTHER -> r

\* The rune mapping inside fsNameFromURL.
cleanup(r) ==
  CASE r = "?" -> "/"
    [] r = "&" -> ","
    [] OTHER -> r

\* strings.Map(cleanup, url): cleanup applied to every rune, in order.
fsNameFromURL(url) == [i \in 1..Len(url) |-> cleanup(url[i])]

\* path.Dir of a key: what precedes its last "/" (keys start with "/").
Dir(name) ==
  LET i == LastIndexRune(name, "/")
  IN IF i = 0 THEN <<>> ELSE SubSeq(name, 1, i - 1)

\* Time.Format(http.TimeFormat): the wall clock reading of t in the time's
\* own location, followed by the literal "GMT".  The value here is the
\* instant (seconds) a client reads from the header.
Format(t, offset) == t + offset

\* ------------------------------------------------------------- generators
\* The PNG encoding of the image a generator builds for a request: chunks
\* that name the request they were rendered for.
PngLen(u) == IF "&" \in Range(u.RawQuery) THEN 2 ELSE 1

Png(u) == [i \in 1..PngLen(u) |-> RequestURI(u)]

\* cachedPng{Timestamp, Bytes}
cachedPng(t, b) == [Timestamp |-> t, Bytes |-> b]

\* The zero value of the local variable `cacher` before it is assigned.
NoEntry == cachedPng(-1, <<>>)

NoResponse == [status |-> 0, ctype |-> "", lastModified |-> -1, expires |-> -1,
               body |-> <<>>]

\* http.Error(w, err.Error(), http.StatusInternalServerError)
ErrorResponse == [NoResponse EXCEPT !.status = 500, !.ctype = "text/plain"]

\* A handler that returns, or writes a body, without setting a status.
OkResponse(ctype, body) ==
  [NoResponse EXCEPT !.status = 200, !.ctype = ctype, !.body = body]

\* The goroutine of the request panicked (call of a nil func): no response.
Panicked == [NoResponse EXCEPT !.status = -1]

VARIABLES
  disableCache,  \* the flag -disableCache
  local,         \* offset of time.Local from UTC, seconds
  now,           \* the clock
  pngCache,      \* the tile cache: key -> cachedPng, on the keys it holds
  files,         \* the files under cacheDir: name -> [bytes, mtime, atime]
  dirs,          \* the directories under cacheDir (cacheDir itself is <<>>)
  pc,            \* where each request's goroutine is
  url,           \* req.URL of each request
  cacheKey,      \* drawFractal's local cacheKey
  cacher,        \* drawFractal's local cacher
  resp,          \* what the request's client receives
  outcome,       \* how the request's call through factory and Encode ended
  late,          \* whether the request arrived after an Add for its URI
  added,         \* the request URIs whose miss path has added an entry
  genCalls,      \* calls through factory[fracType] so far
  history,       \* key -> the entries ever added under it
  tpc,           \* where each savePngFromCache goroutine is
  tcp,           \* savePngFromCache's local cacher / cp
  wrote,         \* the byte count outf.Write returned to the task
  prior,         \* the tasks that had returned when the task was started
  mapIn,         \* argument of fsNameFromURL (key-normalisation specification)
  mapOut,        \* its result
  mapped,        \* whether fsNameFromURL has been applied to mapIn
  nav0,          \* the DefaultNavigator as constructed (navigator specification)
  nav,           \* the DefaultNavigator now
  navLog,        \* the Translate and Zoom calls made on it, in order
  pix,           \* argument of the last Transform
  frac,          \* its result
  transformed,   \* whether frac is Transform(pix) of the navigator as it is
  hsv,           \* arguments of HSVToRGBA (colour specification)
  rgba,          \* its result
  converted      \* whether HSVToRGBA has been applied to hsv

config == <<disableCache, local>>

reqVars == <<pc, url, cacheKey, cacher, resp, outcome, late>>

taskVars == <<tpc, tcp, wrote, prior>>

serverVars ==
  <<config, now, pngCache, files, dirs, reqVars, added, genCalls, history,
    taskVars>>

mapVars == <<mapIn, mapOut, mapped>>

navVars == <<nav0, nav, navLog, pix, frac, transformed>>

hsvVars == <<hsv, rgba, converted>>

\* The variables of the fractal package's specifications.
fractalVars == <<navVars, hsvVars>>

vars == <<serverVars, mapVars, fractalVars>>

\* ------------------------------------------------------------- tile cache
\* pngCache.Get(key): the entry and whether the key is present.
CacheHas(key) == key \in DOMAIN pngCache

CacheGet(key) == IF CacheHas(key) THEN pngCache[key] ELSE NoEntry

\* pngCache.Add(key, e): insert, or replace the mapping of a key it holds.
\* NewCache() is given no bound, so nothing is evicted.
CacheAdd(key, e) ==
  [k \in DOMAIN pngCache \cup {key} |-> IF k = key THEN e ELSE pngCache[k]]

\* ------------------------------------------------------------ file system
File(b, m, a) == [bytes |-> b, mtime |-> m, atime |-> a]

\* Write b at offset 0 of a file holding old: the file is not truncated.
Overwrite(old, b) == b \o SubSeq(old, Len(b) + 1, Len(old))

PutFile(name, f) ==
  [k \in DOMAIN files \cup {name} |-> IF k = name THEN f ELSE files[k]]

\* The instants the clock may show at the next reading.
Clock == now..Min(now + 1, MaxTime)

\* The states in which a savePngFromCache goroutine has returned.
Returned == {"notInCache", "exists", "openFailed", "saved", "chtimesFailed"}

\* -------------------------------------------------------- package fractal
MinInt == -MaxInt - 1

\* Go's + on two ints: the sum, wrapped into MinInt..MaxInt.
AddInt(a, b) ==
  IF a > 0 /\ b > MaxInt - a THEN (a - MaxInt - 1) + (b - MaxInt - 1)
  ELSE IF a < 0 /\ b < MinInt - a THEN (a + MaxInt + 1) + (b + MaxInt + 1)
  ELSE a + b

RECURSIVE Norm(_, _)
\* The float64 that holds m * 2^e: m odd, or zero.  An int and a quotient of
\* an int by a power of two are held exactly.
Norm(m, e) ==
  IF m = 0 THEN [m |-> 0, e |-> 0]
  ELSE IF m % 2 = 0 THEN Norm(m \div 2, e + 1)
  ELSE [m |-> m, e |-> e]

\* float64(x) of an int x.
Float64(x) == Norm(x, 0)

\* math.Pow(2, z) for an integral z.
Pow2(z) == [m |-> 1, e |-> z]

\* a / b on float64 for b a power of two.
Quo(a, b) == Norm(a.m, a.e - b.e)

\* image.Pt(X, Y)
Pt(x, y) == [X |-> x, Y |-> y]

\* NewDefaultNavigator(z, xoff, yoff) and the literal DefaultNavigator{z, offset}
NewDefaultNavigator(z, xoff, yoff) == [z |-> z, offset |-> Pt(xoff, yoff)]

\* (n *DefaultNavigator) Transform(p): the two coordinates returned.
Transform(n, p) ==
  LET x == AddInt(p.X, n.offset.X)
      y == AddInt(p.Y, n.offset.Y)
      z == Pow2(n.z)
  IN <<Quo(Float64(x), z), Quo(Float64(y), z)>>

GetTranslate(n) == n.offset

\* (n *DefaultNavigator) Translate(offset): the navigator after the call.
Translate(n, offset) == [n EXCEPT !.offset = offset]

\* Zoom that also puts the offset back to the origin.
ZoomResetsOffset(n, z) == [z |-> z, offset |-> Pt(0, 0)]

\* (n *DefaultNavigator) Zoom(z): the navigator after the call.
Zoom(n, z) == [n EXCEPT !.z = z]

GetZoom(n) == n.z

\* A saturation, value or intermediate of HSVToRGBA: the fraction n/d.  The
\* hues and fractions drawn are binary fractions, which float64 holds exactly.
Rat(n, d) == [n |-> n, d |-> d]

RatSub(a, b) == Rat(a.n * b.d - b.n * a.d, a.d * b.d)

RatMul(a, b) == Rat(a.n * b.n, a.d * b.d)

\* math.Mod(x, y) for integral x and y > 0: the result has the sign of x.
Mod(x, y) == IF x >= 0 THEN x % y ELSE -((-x) % y)

\* uint8(r * 255) for 0 <= r <= 1: the fraction is cut off.
Uint8(r) == (r.n * Full) \div r.d

\* color.RGBA{R, G, B, A}
RGBA(r, g, b, a) == [R |-> r, G |-> g, B |-> b, A |-> a]

\* HSVToRGBA(h, s, v) for an integral h: a sector index outside 0..5 matches
\* no case of the switch and the zero value of color.RGBA is returned.
HSVToRGBA(h, s, v) ==
  LET floor == h \div 60
      hi == Mod(floor, 6)
      f == Rat(h - 60 * floor, 60)
      one == Rat(1, 1)
      p == RatMul(v, RatSub(one, s))
      q == RatMul(v, RatSub(one, RatMul(f, s)))
      t == RatMul(v, RatSub(one, RatMul(RatSub(one, f), s)))
      RGB(r, g, b) == RGBA(Uint8(r), Uint8(g), Uint8(b), Full)
  IN CASE hi = 0 -> RGB(v, t, p)
       [] hi = 1 -> RGB(q, v, p)
       [] hi = 2 -> RGB(p, v, t)
       [] hi = 3 -> RGB(p, q, v)
       [] hi = 4 -> RGB(t, p, v)
       [] hi = 5 -> RGB(v, p, q)
       [] OTHER -> RGBA(0, 0, 0, 0)

\* No navigator in use: the variables of the navigator specification at rest.
NavIdle ==
  /\ nav0 = NewDefaultNavigator(0, 0, 0)
  /\ nav = nav0
  /\ navLog = <<>>
  /\ pix = Pt(0, 0)
  /\ frac = <<Float64(0), Float64(0)>>
  /\ transformed = FALSE

\* No colour being mapped: the variables of the colour specification at rest.
HSVIdle ==
  /\ hsv = [h |-> 0, s |-> Rat(0, 1), v |-> Rat(0, 1)]
  /\ rgba = RGBA(0, 0, 0, 0)
  /\ converted = FALSE

\* ------------------------------------------------------------------- init
ServerInit ==
  /\ disableCache \in BOOLEAN
  /\ local \in LocalOffsets
  /\ now = 0
  /\ pngCache = <<>>
  /\ files = <<>>
  /\ dirs = {<<>>}
  /\ pc = [r \in ReqIds |-> "new"]
  /\ url = [r \in ReqIds |-> NoURL]
  /\ cacheKey = [r \in ReqIds |-> <<>>]
  /\ cacher = [r \in ReqIds |-> NoEntry]
  /\ resp = [r \in ReqIds |-> NoResponse]
  /\ outcome = [r \in ReqIds |-> "none"]
  /\ late = [r \in ReqIds |-> FALSE]
  /\ added = {}
  /\ genCalls = 0
  /\ history = <<>>
  /\ tpc = [r \in ReqIds |-> "none"]
  /\ tcp = [r \in ReqIds |-> NoEntry]
  /\ wrote = [r \in ReqIds |-> -1]
  /\ prior = [r \in ReqIds |-> {}]

Init ==
  /\ ServerInit
  /\ mapIn = <<>>
  /\ mapOut = <<>>
  /\ mapped = FALSE
  /\ NavIdle
  /\ HSVIdle

\* --------------------------------------------------------------- requests
\* A request arrives and IndexServer routes it: a non-empty type with a
\* non-empty parsed query goes to drawFractal, a non-empty type without one to
\* drawFractalPage, the empty type to the index page.  The two pages are
\* templates: template.ParseFiles or Execute may fail (status 500).
\* Requests are numbered in their order of arrival.
IndexServer(r, u) ==
  /\ pc[r] = "new"
  /\ \A q \in 1..(r - 1) : pc[q] # "new"
  /\ url' = [url EXCEPT ![r] = u]
  /\ late' = [late EXCEPT ![r] = RequestURI(u) \in added]
  /\ LET fracType == Tail(u.Path)
     IN IF fracType # <<>> /\ QueryKeys(u.RawQuery) # {}
        THEN /\ pc' = [pc EXCEPT ![r] = "drawFractal"]
             /\ UNCHANGED resp
        ELSE /\ pc' = [pc EXCEPT ![r] = "page"]
             /\ \E ok \in BOOLEAN :
                  resp' = [resp EXCEPT ![r] =
                             IF ok THEN OkResponse("text/html", <<>>)
                             ELSE ErrorResponse]
  /\ UNCHANGED <<config, now, pngCache, files, dirs, cacheKey, cacher, outcome,
                 added, genCalls, history, taskVars>>

\* factory[fracType](fractal.Options{req.URL.Query()}): the constructor's
\* outcome for a registered type, "panic" for a name the map does not hold
\* (the map yields a nil func, and calling it panics).
NewFractal(fracType) ==
  IF fracType \in factory THEN {"ok", "err"} ELSE {"panic"}

\* The test of the flag left out: every request takes the cached path.
BypassNever(flag) == FALSE

\* `if disableCache`: whether drawFractal takes the path without the cache.
Bypass(flag) == flag

\* drawFractal with -disableCache: construct, encode straight into the
\* response, return.  The error of png.Encode is dropped: the response keeps
\* the status 200 and holds what Encode wrote before it failed.
DrawDisabled(r) ==
  /\ pc[r] = "drawFractal"
  /\ Bypass(disableCache)
  /\ genCalls' = genCalls + 1
  /\ pc' = [pc EXCEPT ![r] = "direct"]
  /\ \E out \in NewFractal(Tail(url[r].Path)) :
       CASE out = "panic" ->
              /\ resp' = [resp EXCEPT ![r] = Panicked]
              /\ outcome' = [outcome EXCEPT ![r] = "panic"]
         [] out = "err" ->
              /\ resp' = [resp EXCEPT ![r] = ErrorResponse]
              /\ outcome' = [outcome EXCEPT ![r] = "err"]
         [] out = "ok" ->
              \E n \in 0..PngLen(url[r]) :
                /\ resp' = [resp EXCEPT ![r] =
                              OkResponse("", SubSeq(Png(url[r]), 1, n))]
                /\ outcome' = [outcome EXCEPT ![r] =
                                 IF n = PngLen(url[r]) THEN "ok" ELSE "encodeErr"]
  /\ UNCHANGED <<config, now, pngCache, files, dirs, url, cacheKey, cacher,
                 late, added, history, taskVars>>

\* The response of the cached path, from cp := cacher.(cachedPng): the
\* Content-Type, Last-Modified and Expires headers and the bytes.
Respond(cp, offset) ==
  [status |-> 200, ctype |-> "image/png",
   lastModified |-> Format(cp.Timestamp, offset),
   expires |-> Format(cp.Timestamp + Hour, offset),
   body |-> cp.Bytes]

\* The lookup's result ignored: every request renders.
MissedAlways(ok) == TRUE

\* `if !ok`: whether the lookup's result sends drawFractal down the miss path.
Missed(ok) == ~ok

\* drawFractal with the cache: derive the key and look it up; on a hit the
\* entry found is the response.
DrawGet(r) ==
  /\ pc[r] = "drawFractal"
  /\ ~Bypass(disableCache)
  /\ LET key == fsNameFromURL(RequestURI(url[r]))
     IN /\ cacheKey' = [cacheKey EXCEPT ![r] = key]
        /\ cacher' = [cacher EXCEPT ![r] = CacheGet(key)]
        /\ IF Missed(CacheHas(key))
           THEN /\ pc' = [pc EXCEPT ![r] = "miss"]
                /\ UNCHANGED resp
           ELSE /\ resp' = [resp EXCEPT ![r] = Respond(CacheGet(key), local)]
                /\ pc' = [pc EXCEPT ![r] = "hit"]
  /\ UNCHANGED <<config, now, pngCache, files, dirs, url, outcome, late, added,
                 genCalls, history, taskVars>>

\* The error branch without its return: the handler goes on to cache an
\* empty image.
ConstructFailedNoReturn(r) ==
  /\ resp' = [resp EXCEPT ![r] = ErrorResponse]
  /\ cacher' = [cacher EXCEPT ![r] = cachedPng(now, <<>>)]
  /\ pc' = [pc EXCEPT ![r] = "add"]
  /\ UNCHANGED now

\* The constructor returned an error: http.Error with status 500, and return.
ConstructFailed(r) ==
  /\ resp' = [resp EXCEPT ![r] = ErrorResponse]
  /\ pc' = [pc EXCEPT ![r] = "failed"]
  /\ UNCHANGED <<now, cacher>>

\* The miss: construct; on an error answer 500 and return; else encode into a
\* buffer (the error of png.Encode is dropped: on a failure the buffer is
\* empty) and stamp the entry with time.Now().
DrawRender(r) ==
  /\ pc[r] = "miss"
  /\ genCalls' = genCalls + 1
  /\ \E out \in NewFractal(Tail(url[r].Path)) :
       CASE out = "panic" ->
              /\ resp' = [resp EXCEPT ![r] = Panicked]
              /\ pc' = [pc EXCEPT ![r] = "panicked"]
              /\ outcome' = [outcome EXCEPT ![r] = "panic"]
              /\ UNCHANGED <<now, cacher>>
         [] out = "err" ->
              /\ ConstructFailed(r)
              /\ outcome' = [outcome EXCEPT ![r] = "err"]
         [] out = "ok" ->
              \E encoded \in BOOLEAN, t \in Clock :
                /\ now' = t
                /\ cacher' = [cacher EXCEPT ![r] =
                                cachedPng(t, IF encoded THEN Png(url[r]) ELSE <<>>)]
                /\ outcome' = [outcome EXCEPT ![r] =
                                 IF encoded THEN "ok" ELSE "encodeErr"]
                /\ pc' = [pc EXCEPT ![r] = "add"]
                /\ UNCHANGED resp
  /\ UNCHANGED <<config, pngCache, files, dirs, url, cacheKey, late, added,
                 history, taskVars>>

\* The go statement left out: no goroutine is started.
GoNothing(r) == tpc

\* `go savePngFromCache(cacheKey)`: the goroutine of request r exists from now
\* on, at its first statement; the caller goes on without waiting for it.
Go(r) == [tpc EXCEPT ![r] = "get"]

\* pngCache.Add(cacheKey, cacher) without the replacement of an entry the
\* cache holds: the first entry added under a key stays.
DrawAddKeepsFirst(r) ==
  /\ pc[r] = "add"
  /\ pngCache' = IF CacheHas(cacheKey[r]) THEN pngCache
                 ELSE CacheAdd(cacheKey[r], cacher[r])
  /\ added' = added \cup {RequestURI(url[r])}
  /\ history' = [k \in DOMAIN history \cup {cacheKey[r]} |->
                   (IF k \in DOMAIN history THEN history[k] ELSE {})
                   \cup (IF k = cacheKey[r] THEN {cacher[r]} ELSE {})]
  /\ tpc' = Go(r)
  /\ prior' = [prior EXCEPT ![r] = {t \in ReqIds : tpc[t] \in Returned}]
  /\ resp' = [resp EXCEPT ![r] = Respond(cacher[r], local)]
  /\ pc' = [pc EXCEPT ![r] = "missed"]
  /\ UNCHANGED <<config, now, files, dirs, url, cacheKey, cacher, outcome, late,
                 genCalls, tcp, wrote>>

\* pngCache.Add(cacheKey, cacher), then `go savePngFromCache(cacheKey)`, then
\* the response from the entry just made.
DrawAdd(r) ==
  /\ pc[r] = "add"
  /\ pngCache' = CacheAdd(cacheKey[r], cacher[r])
  /\ added' = added \cup {RequestURI(url[r])}
  /\ history' = [k \in DOMAIN history \cup {cacheKey[r]} |->
                   (IF k \in DOMAIN history THEN history[k] ELSE {})
                   \cup (IF k = cacheKey[r] THEN {cacher[r]} ELSE {})]
  /\ tpc' = Go(r)
  /\ prior' = [prior EXCEPT ![r] = {t \in ReqIds : tpc[t] \in Returned}]
  /\ resp' = [resp EXCEPT ![r] = Respond(cacher[r], local)]
  /\ pc' = [pc EXCEPT ![r] = "missed"]
  /\ UNCHANGED <<config, now, files, dirs, url, cacheKey, cacher, outcome, late,
                 genCalls, tcp, wrote>>

\* ----------------------------------------------------- savePngFromCache
\* The task's argument is the cacheKey of the request that started it.
\* cacher, ok := pngCache.Get(cacheKey); return when the key is absent.
SaveGet(t) ==
  /\ tpc[t] = "get"
  /\ tcp' = [tcp EXCEPT ![t] = CacheGet(cacheKey[t])]
  /\ tpc' = [tpc EXCEPT ![t] = IF CacheHas(cacheKey[t]) THEN "statDir"
                                ELSE "notInCache"]
  /\ UNCHANGED <<config, now, pngCache, files, dirs, reqVars, added, genCalls,
                 history, wrote, prior>>

\* os.Stat(d) of d := path.Dir(cachefn) and, when d is not there,
\* os.Mkdir(d, 0700): makes d when its parent exists, and may fail; the error
\* is assigned and never read.
SaveMkdir(t) ==
  /\ tpc[t] = "statDir"
  /\ \E ok \in BOOLEAN :
       dirs' = IF Dir(cacheKey[t]) \notin dirs /\ ok /\ Dir(Dir(cacheKey[t])) \in dirs
               THEN dirs \cup {Dir(cacheKey[t])} ELSE dirs
  /\ tpc' = [tpc EXCEPT ![t] = "statFile"]
  /\ UNCHANGED <<config, now, pngCache, files, reqVars, added, genCalls, history,
                 tcp, wrote, prior>>

\* The existence test with its result inverted into "never there".
FileExistsNever(name) == FALSE

\* `_, err := os.Stat(cachefn); if err == nil`: whether the file is there.
FileExists(name) == name \in DOMAIN files

\* os.Stat(cachefn): return when the file is there.
SaveStatFile(t) ==
  /\ tpc[t] = "statFile"
  /\ tpc' = [tpc EXCEPT ![t] = IF FileExists(cacheKey[t]) THEN "exists"
                                ELSE "open"]
  /\ UNCHANGED <<config, now, pngCache, files, dirs, reqVars, added, genCalls,
                 history, tcp, wrote, prior>>

\* os.OpenFile(cachefn, O_CREATE|O_WRONLY, 0644): fails without the directory
\* (and may fail with it); creates the file, empty, when it is absent; opens a
\* file that is there as it is (no O_EXCL, no O_TRUNC).
SaveOpen(t) ==
  /\ tpc[t] = "open"
  /\ \E ok \in BOOLEAN, at \in Clock :
       IF ok /\ Dir(cacheKey[t]) \in dirs
       THEN /\ tpc' = [tpc EXCEPT ![t] = "write"]
            /\ now' = at
            /\ files' = IF cacheKey[t] \in DOMAIN files THEN files
                        ELSE PutFile(cacheKey[t], File(<<>>, at, at))
       ELSE /\ tpc' = [tpc EXCEPT ![t] = "openFailed"]
            /\ UNCHANGED <<now, files>>
  /\ UNCHANGED <<config, pngCache, dirs, reqVars, added, genCalls, history, tcp,
                 wrote, prior>>

\* outf.Write(cp.Bytes); outf.Close(): n bytes go to the start of the file
\* (all of them unless the write fails; its error is dropped).
SaveWrite(t) ==
  /\ tpc[t] = "write"
  /\ \E n \in {0, Len(tcp[t].Bytes)}, at \in Clock :
       /\ now' = at
       /\ wrote' = [wrote EXCEPT ![t] = n]
       /\ files' = PutFile(cacheKey[t],
                     File(Overwrite(files[cacheKey[t]].bytes,
                                    SubSeq(tcp[t].Bytes, 1, n)),
                          IF n > 0 THEN at ELSE files[cacheKey[t]].mtime,
                          files[cacheKey[t]].atime))
  /\ tpc' = [tpc EXCEPT ![t] = "chtimes"]
  /\ UNCHANGED <<config, pngCache, dirs, reqVars, added, genCalls, history, tcp,
                 prior>>

\* Chtimes that leaves the times the write gave the file.
ChtimesKeepsWriteTime(f, cp) == f

\* The file after os.Chtimes(cachefn, cp.Timestamp, cp.Timestamp).
Chtimes(f, cp) == File(f.bytes, cp.Timestamp, cp.Timestamp)

\* A failed time-set that starts the task over instead of returning.
SaveChtimesRetries(t) ==
  /\ tpc[t] = "chtimes"
  /\ \E ok \in BOOLEAN :
       /\ files' = IF ok THEN PutFile(cacheKey[t], Chtimes(files[cacheKey[t]], tcp[t]))
                   ELSE files
       /\ tpc' = [tpc EXCEPT ![t] = IF ok THEN "saved" ELSE "get"]
  /\ UNCHANGED <<config, now, pngCache, dirs, reqVars, added, genCalls, history,
                 tcp, wrote, prior>>

\* os.Chtimes on the file written: a failure is logged and nothing else.
SaveChtimes(t) ==
  /\ tpc[t] = "chtimes"
  /\ \E ok \in BOOLEAN :
       /\ files' = IF ok THEN PutFile(cacheKey[t], Chtimes(files[cacheKey[t]], tcp[t]))
                   ELSE files
       /\ tpc' = [tpc EXCEPT ![t] = IF ok THEN "saved" ELSE "chtimesFailed"]
  /\ UNCHANGED <<config, now, pngCache, dirs, reqVars, added, genCalls, history,
                 tcp, wrote, prior>>

\* ------------------------------------------------------------------- next
Next ==
  \/ \E r \in ReqIds, u \in Requests : IndexServer(r, u) /\ UNCHANGED <<mapVars, fractalVars>>
  \/ \E r \in ReqIds : DrawDisabled(r) /\ UNCHANGED <<mapVars, fractalVars>>
  \/ \E r \in ReqIds : DrawGet(r) /\ UNCHANGED <<mapVars, fractalVars>>
  \/ \E r \in ReqIds : DrawRender(r) /\ UNCHANGED <<mapVars, fractalVars>>
  \/ \E r \in ReqIds : DrawAdd(r) /\ UNCHANGED <<mapVars, fractalVars>>
  \/ \E t \in ReqIds : SaveGet(t) /\ UNCHANGED <<mapVars, fractalVars>>
  \/ \E t \in ReqIds : SaveMkdir(t) /\ UNCHANGED <<mapVars, fractalVars>>
  \/ \E t \in ReqIds : SaveStatFile(t) /\ UNCHANGED <<mapVars, fractalVars>>
  \/ \E t \in ReqIds : SaveOpen(t) /\ UNCHANGED <<mapVars, fractalVars>>
  \/ \E t \in ReqIds : SaveWrite(t) /\ UNCHANGED <<mapVars, fractalVars>>
  \/ \E t \in ReqIds : SaveChtimes(t) /\ UNCHANGED <<mapVars, fractalVars>>

Spec == Init /\ [][Next]_vars

\* ------------------------------------- key normalisation on its own
\* The runes the URLs of this specification are made of.
MapAlphabet == {"/", "?", "&", ",", "z"}

\* The request URI of the first request of Requests, "/mandelbrot?z=2&c=0,0".
ExampleURI ==
  RequestURI([Path |-> <<"/">> \o mandelbrot,
              RawQuery |-> <<"z", "=", "2", "&", "c", "=", "0", ",", "0">>])

MapInputs ==
  UNION {[1..n -> MapAlphabet] : n \in 0..MaxLen} \cup {ExampleURI}

InitMap ==
  /\ ServerInit
  /\ ~disableCache
  /\ local = 0
  /\ mapIn \in MapInputs
  /\ mapOut = <<>>
  /\ mapped = FALSE
  /\ NavIdle
  /\ HSVIdle

\* cacheKey := fsNameFromURL(req.URL.RequestURI())
MapURL ==
  /\ ~mapped
  /\ mapOut' = fsNameFromURL(mapIn)
  /\ mapped' = TRUE
  /\ UNCHANGED <<mapIn, serverVars, fractalVars>>

NextMap == MapURL

SpecMap == InitMap /\ [][NextMap]_vars

\* ------------------------------------------------ navigator on its own
\* The zoom levels and the points (offsets and pixels) the clients of a
\* navigator pass: those of TestNavigator, a zoom below and at zero, and
\* points at the end of the int range.
NavZooms == {-1, 0, 1, 4}

NavPoints == {Pt(0, 0), Pt(4, 4), Pt(1, 0), Pt(MaxInt, 0)}

\* The table `datum` of TestNavigator: zoom, pixel, offset and the expected
\* coordinates (whole numbers).
TestNavigator ==
  { [z |-> 1, pix |-> Pt(0, 0), off |-> Pt(0, 0), frac |-> Pt(0, 0)],
    [z |-> 1, pix |-> Pt(0, 0), off |-> Pt(4, 4), frac |-> Pt(4, 4)],
    [z |-> 4, pix |-> Pt(0, 0), off |-> Pt(0, 0), frac |-> Pt(0, 0)],
    [z |-> 4, pix |-> Pt(0, 0), off |-> Pt(4, 4), frac |-> Pt(1, 1)],
    [z |-> 4, pix |-> Pt(4, 4), off |-> Pt(0, 0), frac |-> Pt(1, 1)],
    [z |-> 4, pix |-> Pt(4, 4), off |-> Pt(4, 4), frac |-> Pt(2, 2)] }

LogTranslate(o) == [op |-> "Translate", z |-> 0, offset |-> o]

LogZoom(z) == [op |-> "Zoom", z |-> z, offset |-> Pt(0, 0)]

InitNav ==
  /\ ServerInit
  /\ ~disableCache
  /\ local = 0
  /\ mapIn = <<>>
  /\ mapOut = <<>>
  /\ mapped = FALSE
  /\ HSVIdle
  /\ \E z \in NavZooms, o \in NavPoints : nav0 = NewDefaultNavigator(z, o.X, o.Y)
  /\ nav = nav0
  /\ navLog = <<>>
  /\ pix = Pt(0, 0)
  /\ frac = <<Float64(0), Float64(0)>>
  /\ transformed = FALSE

\* nav.Translate(o)
NavTranslate(o) ==
  /\ Len(navLog) < MaxOps
  /\ nav' = Translate(nav, o)
  /\ navLog' = Append(navLog, LogTranslate(o))
  /\ transformed' = FALSE
  /\ UNCHANGED <<nav0, pix, frac, serverVars, mapVars, hsvVars>>

\* nav.Zoom(z)
NavZoom(z) ==
  /\ Len(navLog) < MaxOps
  /\ nav' = Zoom(nav, z)
  /\ navLog' = Append(navLog, LogZoom(z))
  /\ transformed' = FALSE
  /\ UNCHANGED <<nav0, pix, frac, serverVars, mapVars, hsvVars>>

\* transX, transY := nav.Transform(p)
NavTransform(p) ==
  /\ pix' = p
  /\ frac' = Transform(nav, p)
  /\ transformed' = TRUE
  /\ UNCHANGED <<nav0, nav, navLog, serverVars, mapVars, hsvVars>>

NextNav ==
  \/ \E o \in NavPoints : NavTranslate(o)
  \/ \E z \in NavZooms : NavZoom(z)
  \/ \E p \in NavPoints : NavTransform(p)

SpecNav == InitNav /\ [][NextNav]_vars

\* --------------------------------------------- colour mapper on its own
\* Hues in degrees: inside [0, 360), at 360 and above, and below zero.
Hues == {-60, -30, 0, 30, 60, 120, 180, 240, 300, 330, 360, 420}

\* Saturations and values: 0, 1/2 and 1.
Units == {Rat(0, 1), Rat(1, 2), Rat(1, 1)}

InitHSV ==
  /\ ServerInit
  /\ ~disableCache
  /\ local = 0
  /\ mapIn = <<>>
  /\ mapOut = <<>>
  /\ mapped = FALSE
  /\ NavIdle
  /\ hsv \in [h : Hues, s : Units, v : Units]
  /\ rgba = RGBA(0, 0, 0, 0)
  /\ converted = FALSE

\* c := HSVToRGBA(h, s, v)
MapColour ==
  /\ ~converted
  /\ rgba' = HSVToRGBA(hsv.h, hsv.s, hsv.v)
  /\ converted' = TRUE
  /\ UNCHANGED <<hsv, serverVars, mapVars, navVars>>

NextHSV == MapColour

SpecHSV == InitHSV /\ [][NextHSV]_vars

\* ------------------------------------------------------------- properties
\* Whether IndexServer hands the request to drawFractal.
IsRender(u) == Tail(u.Path) # <<>> /\ QueryKeys(u.RawQuery) # {}

\* The persistence tasks started for key k.
TasksOf(k) == {t \in ReqIds : tpc[t] # "none" /\ cacheKey[t] = k}

C2_DisabledBypassesCache ==
  disableCache =>
    /\ DOMAIN pngCache = {}
    /\ DOMAIN files = {}
    /\ DOMAIN history = {}
    /\ \A r \in ReqIds :
         /\ tpc[r] = "none"
         /\ cacheKey[r] = <<>>
         /\ pc[r] \in {"new", "drawFractal", "page", "direct"}
         /\ (pc[r] = "direct") <=> (outcome[r] # "none")
    /\ genCalls = Cardinality({r \in ReqIds : pc[r] \notin {"new", "drawFractal"}
                                               /\ IsRender(url[r])})

C2_Witness ==
  /\ disableCache
  /\ \A r \in 1..2 : pc[r] = "direct" /\ outcome[r] = "ok"
  /\ url[1] = url[2]
  /\ genCalls = 2

\* C3: drawFractal calls through the generator registry only for a type name
\* the registry holds.
C3_DispatchOnlyRegistered ==
  \A r \in ReqIds : outcome[r] # "none" => Tail(url[r].Path) \in factory

\* C4: on a cache miss whose constructor returns an error the request is
\* answered with status 500 and stops: it adds no entry, starts no persistence
\* task, and the step that handles the error leaves the cache, its history,
\* the tasks and the files as they were.
C4_ConstructorErrorStops ==
  /\ [](\A r \in ReqIds :
          (~disableCache /\ outcome[r] = "err") =>
            /\ pc[r] = "failed"
            /\ resp[r] = ErrorResponse
            /\ tpc[r] = "none"
            /\ cacher[r] = NoEntry)
  /\ [][\A r \in ReqIds :
          (~disableCache /\ outcome[r] # "err" /\ outcome'[r] = "err") =>
            /\ pngCache' = pngCache
            /\ history' = history
            /\ taskVars' = taskVars
            /\ files' = files]_vars

C4_Witness ==
  \E r \in ReqIds :
    /\ ~disableCache /\ outcome[r] = "err" /\ pc[r] = "failed"
    /\ cacheKey[r] \notin DOMAIN pngCache

\* C5: a request whose PNG encoding failed is answered with status 500 on both
\* paths, and on the miss path adds no entry and starts no persistence task.
C5_EncodeFailureIs500 ==
  \A r \in ReqIds :
    outcome[r] = "encodeErr" =>
      /\ pc[r] \in {"direct", "failed"}
      /\ resp[r].status = 500
      /\ tpc[r] = "none"

\* The URI and the key of the example, "/mandelbrot?z=2&c=0,0" and
\* "/mandelbrot/z=2,c=0,0".
ExampleLiteral ==
  <<"/">> \o mandelbrot \o <<"?", "z", "=", "2", "&", "c", "=", "0", ",", "0">>

ExampleKey ==
  <<"/">> \o mandelbrot \o <<"/", "z", "=", "2", ",", "c", "=", "0", ",", "0">>

\* C6: the cache key is the request URI with every "?" replaced by "/", every
\* "&" by ",", and every other rune unchanged in place (same length, same
\* order); "/mandelbrot?z=2&c=0,0" gives "/mandelbrot/z=2,c=0,0".
C6_KeyReplacesTwoRunes ==
  mapped =>
    /\ Len(mapOut) = Len(mapIn)
    /\ \A i \in 1..Len(mapIn) :
         /\ mapIn[i] = "?" => mapOut[i] = "/"
         /\ mapIn[i] = "&" => mapOut[i] = ","
         /\ mapIn[i] \notin {"?", "&"} => mapOut[i] = mapIn[i]
    /\ mapIn = ExampleLiteral => mapOut = ExampleKey

C6_Witness == mapped /\ mapIn = ExampleLiteral /\ mapOut = ExampleKey

\* C7: two render requests with different request URIs never have the same
\* cache key, and a hit is never answered with a tile rendered for another
\* request URI.
C7_KeyIdentifiesRequest ==
  /\ \A r1, r2 \in ReqIds :
       (cacheKey[r1] # <<>> /\ cacheKey[r2] # <<>>
        /\ RequestURI(url[r1]) # RequestURI(url[r2])) =>
         cacheKey[r1] # cacheKey[r2]
  /\ \A r \in ReqIds :
       pc[r] = "hit" =>
         \A i \in 1..Len(resp[r].body) : resp[r].body[i] = RequestURI(url[r])

\* Whether task t1 wrote the file of its key and had returned when t2 started.
WroteBefore(t1, t2) ==
  /\ t1 \in prior[t2]
  /\ tpc[t1] \in {"saved", "chtimesFailed"}
  /\ cacheKey[t1] = cacheKey[t2]

\* C8: a persistence call made for a key after an earlier call for the key has
\* written the file and returned finds the file and returns: it writes
\* nothing, and none of its steps changes the file's bytes or times, whatever
\* entry the cache holds for the key by then.
C8_SecondSaveWritesNothing ==
  /\ [](\A t1, t2 \in ReqIds :
          WroteBefore(t1, t2) =>
            /\ tpc[t2] \in {"get", "statDir", "statFile", "exists"}
            /\ wrote[t2] = -1)
  /\ [][\A t1, t2 \in ReqIds :
          (WroteBefore(t1, t2) /\ tpc'[t2] # tpc[t2]) => files' = files]_vars

C8_Witness ==
  \E t1, t2 \in ReqIds :
    /\ WroteBefore(t1, t2)
    /\ tpc[t1] = "saved"
    /\ tpc[t2] = "exists"
    /\ pngCache[cacheKey[t2]] # tcp[t1]
    /\ files[cacheKey[t2]].bytes # pngCache[cacheKey[t2]].Bytes
    /\ files[cacheKey[t2]].mtime # pngCache[cacheKey[t2]].Timestamp

\* The file that mirrors entry e: its bytes, and both times its timestamp.
Mirror(e) == File(e.Bytes, e.Timestamp, e.Timestamp)

\* C9 as stated: whenever a file exists for a key the cache holds, the file
\* has the entry's bytes and its times are the entry's timestamp.
C9_FileMirrorsEntry ==
  \A k \in DOMAIN files \cap DOMAIN pngCache : files[k] = Mirror(pngCache[k])

\* C9 amended: for a key on which one request missed, once that request's
\* persistence task has returned with its write complete and its time-set
\* done, the file has the bytes of the cache entry and its modification and
\* access times are the entry's timestamp.
C9_FileMirrorsEntryOfSingleMiss ==
  \A t \in ReqIds :
    (/\ tpc[t] = "saved"
     /\ wrote[t] = Len(tcp[t].Bytes)
     /\ TasksOf(cacheKey[t]) = {t}) =>
      /\ cacheKey[t] \in DOMAIN files \cap DOMAIN pngCache
      /\ files[cacheKey[t]] = Mirror(pngCache[cacheKey[t]])

C9_Witness ==
  \E t \in ReqIds :
    /\ tpc[t] = "saved"
    /\ wrote[t] = Len(tcp[t].Bytes)
    /\ wrote[t] > 0
    /\ TasksOf(cacheKey[t]) = {t}
    /\ now > tcp[t].Timestamp

\* C10: every response of the cached path carries the bytes of one entry added
\* under its key, Last-Modified equal to that entry's timestamp and Expires
\* equal to that timestamp plus one hour; and a hit on the entry a miss added
\* carries the bytes and the Last-Modified of the miss's response.
C10_HeadersCarryEntryTime ==
  /\ \A r \in ReqIds :
       pc[r] \in {"hit", "missed"} =>
         \E e \in history[cacheKey[r]] :
           /\ resp[r].body = e.Bytes
           /\ resp[r].lastModified = e.Timestamp
           /\ resp[r].expires = e.Timestamp + Hour
  /\ \A r1, r2 \in ReqIds :
       (pc[r1] = "missed" /\ pc[r2] = "hit" /\ cacheKey[r1] = cacheKey[r2]
        /\ Cardinality(history[cacheKey[r1]]) = 1) =>
         /\ resp[r2].body = resp[r1].body
         /\ resp[r2].lastModified = resp[r1].lastModified

\* C11: a persistence task is started exactly once for every cache miss whose
\* constructor returned an image, in the step that has added that miss's entry
\* to the cache, and for no other request (none on a hit); the request has its
\* response whatever the task has done so far, also when it never runs.
C11_SaveStartedOncePerMiss ==
  /\ [](\A r \in ReqIds :
          /\ (tpc[r] # "none") <=> (pc[r] = "missed")
          /\ pc[r] = "missed" =>
               /\ outcome[r] \in {"ok", "encodeErr"}
               /\ cacher[r] \in history[cacheKey[r]]
               /\ resp[r] = Respond(cacher[r], local)
          /\ pc[r] = "hit" => tpc[r] = "none")
  /\ [][\A r \in ReqIds :
          /\ (tpc[r] = "none" /\ tpc'[r] # "none") =>
               /\ tpc'[r] = "get"
               /\ pc[r] = "add" /\ pc'[r] = "missed"
               /\ cacheKey[r] \in DOMAIN pngCache'
               /\ pngCache'[cacheKey[r]] = cacher[r]
          /\ (tpc[r] # "none" /\ tpc'[r] = "get") => tpc[r] = "get"]_vars

C11_Witness ==
  \E r1, r2 \in ReqIds :
    /\ pc[r1] = "missed" /\ tpc[r1] = "get" /\ resp[r1].status = 200
    /\ pc[r2] = "hit" /\ tpc[r2] = "none" /\ cacheKey[r2] = cacheKey[r1]

\* C12: whatever a persistence task meets (directory not made, file there,
\* open, write or time-set failed), none of its steps adds, replaces or
\* removes a cache entry or changes a response or a request, and a task that
\* has returned stays returned: it is not started over.
C12_SaveLeavesCacheAndResponses ==
  /\ [][\A t \in ReqIds :
          (tpc[t] # "none" /\ tpc'[t] # tpc[t]) =>
            /\ pngCache' = pngCache
            /\ history' = history
            /\ reqVars' = reqVars
            /\ CacheGet(cacheKey[t])' = CacheGet(cacheKey[t])
            /\ tpc[t] \notin Returned
            /\ tpc'[t] # "get"]_vars
  /\ [](\A t \in ReqIds :
          tpc[t] \in Returned =>
            /\ pc[t] = "missed"
            /\ resp[t] = Respond(cacher[t], local)
            /\ CacheHas(cacheKey[t]))

C12_Witness ==
  \E t1, t2 \in ReqIds :
    /\ tpc[t1] = "openFailed" /\ tpc[t2] = "chtimesFailed"
    /\ pngCache[cacheKey[t1]] = tcp[t1]
    /\ pngCache[cacheKey[t2]] = tcp[t2]
    /\ resp[t1].status = 200 /\ resp[t2].status = 200

\* C13: a request with an empty query string gets a page and never derives a
\* key, calls through the registry or starts a persistence task; a request
\* with a non-empty query string and a non-empty type goes to drawFractal.
C13_RoutedByQueryString ==
  \A r \in ReqIds :
    pc[r] # "new" =>
      /\ url[r].RawQuery = <<>> =>
           /\ pc[r] = "page"
           /\ cacheKey[r] = <<>>
           /\ outcome[r] = "none"
           /\ tpc[r] = "none"
      /\ (url[r].RawQuery # <<>> /\ Tail(url[r].Path) # <<>>) => pc[r] # "page"

\* Whether the integer x is the sum of a and b, compared by halves so that a
\* sum outside the int range is compared too.
IsSum(x, a, b) ==
  LET low == (a % 2) + (b % 2)
  IN /\ x \div 2 = (a \div 2) + (b \div 2) + (low \div 2)
     /\ x % 2 = low % 2

\* Whether the float64 f is s / 2^z for the sum s of a and b: an odd s is
\* the odd part of f, an even s is twice the sum of the halves.
IsSumOverPow2(f, a, b, z) ==
  LET low == (a % 2) + (b % 2)
      half == (a \div 2) + (b \div 2) + (low \div 2)
  IN IF low % 2 = 1
     THEN f.e = -z /\ IsSum(f.m, a, b)
     ELSE f = Norm(half, 1 - z)

\* C14: Transform(p) returns ((p.X + offset.X) / 2^z, (p.Y + offset.Y) / 2^z)
\* for every zoom, offset and pixel, and leaves the zoom and the offset of the
\* navigator as they were.
C14_TransformAddsThenScales ==
  /\ [](transformed =>
          /\ IsSumOverPow2(frac[1], pix.X, GetTranslate(nav).X, GetZoom(nav))
          /\ IsSumOverPow2(frac[2], pix.Y, GetTranslate(nav).Y, GetZoom(nav)))
  /\ [][transformed' => nav' = nav]_vars

\* C15: for every row of the table of TestNavigator, Transform on a navigator
\* built with the row's zoom and offset returns the row's coordinates for the
\* row's pixel.
C15_TestNavigatorPasses ==
  \A d \in TestNavigator :
    (/\ transformed
     /\ navLog = <<>>
     /\ nav = NewDefaultNavigator(d.z, d.off.X, d.off.Y)
     /\ pix = d.pix) =>
      frac = <<Float64(d.frac.X), Float64(d.frac.Y)>>

\* The navigator after Translate(o) then Zoom(z), and after Zoom(z) then
\* Translate(o), both made on navigator n.
TranslateZoom(n, o, z) == Zoom(Translate(n, o), z)

ZoomTranslate(n, o, z) == Translate(Zoom(n, z), o)

\* C16 as stated: there are an offset, a zoom and a pixel for which the two
\* orders, made on the navigator as it is, differ in the result of Transform
\* or in the offset or zoom read back.
C16_OrderMatters ==
  \E o \in NavPoints, z \in NavZooms, p \in NavPoints :
    \/ Transform(TranslateZoom(nav, o, z), p) # Transform(ZoomTranslate(nav, o, z), p)
    \/ GetTranslate(TranslateZoom(nav, o, z)) # GetTranslate(ZoomTranslate(nav, o, z))
    \/ GetZoom(TranslateZoom(nav, o, z)) # GetZoom(ZoomTranslate(nav, o, z))

\* C16 amended: Translate and Zoom each set one field to the value given, so
\* a navigator that was translated and then zoomed is the navigator the same
\* calls make in the other order: same offset and zoom read back, same result
\* of Transform.
C16_SettersCommute ==
  \A o \in NavPoints, z \in NavZooms :
    (navLog = <<LogTranslate(o), LogZoom(z)>> \/ navLog = <<LogZoom(z), LogTranslate(o)>>) =>
      /\ nav = TranslateZoom(nav0, o, z)
      /\ nav = ZoomTranslate(nav0, o, z)
      /\ GetTranslate(nav) = o
      /\ GetZoom(nav) = z
      /\ transformed =>
           /\ frac = Transform(TranslateZoom(nav0, o, z), pix)
           /\ frac = Transform(ZoomTranslate(nav0, o, z), pix)

C16_Witness ==
  /\ navLog = <<LogTranslate(Pt(4, 4)), LogZoom(4)>>
  /\ nav0 = NewDefaultNavigator(1, 0, 0)
  /\ transformed
  /\ pix = Pt(4, 4)
  /\ frac = <<Norm(1, -1), Norm(1, -1)>>

\* C17: the colour HSVToRGBA returns is opaque (alpha 255) for every hue, and
\* it is pure red, green and blue for the hues 0, 120 and 240 at saturation 1
\* and value 1.
C17_ColourIsOpaque ==
  converted =>
    /\ rgba.A = 255
    /\ (hsv.s = Rat(1, 1) /\ hsv.v = Rat(1, 1)) =>
         /\ hsv.h = 0 => rgba = RGBA(255, 0, 0, 255)
         /\ hsv.h = 120 => rgba = RGBA(0, 255, 0, 255)
         /\ hsv.h = 240 => rgba = RGBA(0, 0, 255, 255)

\* Whether request r is at its Add: the step from "add" to "missed".
Adds(r) == pc[r] = "add" /\ pc'[r] = "missed"

\* C18: every request that misses adds its own entry; an Add leaves the cache
\* holding, under the key, the entry of that Add and nothing else (the entry
\* of the Add that ran last), only an Add changes the cache, and each request
\* answers with the entry it made itself.
C18_LastAddWins ==
  /\ [](/\ \A r \in ReqIds :
             pc[r] = "missed" =>
               /\ resp[r] = Respond(cacher[r], local)
               /\ cacher[r] \in history[cacheKey[r]]
        /\ \A k \in DOMAIN pngCache :
             \E r \in ReqIds :
               pc[r] = "missed" /\ cacheKey[r] = k /\ pngCache[k] = cacher[r])
  /\ [][\A r \in ReqIds :
          Adds(r) =>
            /\ DOMAIN pngCache' = DOMAIN pngCache \cup {cacheKey[r]}
            /\ pngCache'[cacheKey[r]] = cacher[r]
            /\ \A k \in DOMAIN pngCache \ {cacheKey[r]} : pngCache'[k] = pngCache[k]]_vars
  /\ [][pngCache' # pngCache => \E r \in ReqIds : Adds(r)]_vars

C18_Witness ==
  \E r1, r2 \in ReqIds :
    /\ pc[r1] = "missed" /\ pc[r2] = "missed"
    /\ cacheKey[r1] = cacheKey[r2]
    /\ cacher[r1] # cacher[r2]
    /\ pngCache[cacheKey[r1]] = cacher[r2]
    /\ resp[r1].body = cacher[r1].Bytes
    /\ resp[r1].lastModified # resp[r2].lastModified

\* C19: of the persistence tasks started for one key at most one writes the
\* file; the others return at the existence test without writing.
C19_OneTaskWritesFile ==
  \A t1, t2 \in ReqIds :
    (t1 # t2 /\ tpc[t1] # "none" /\ tpc[t2] # "none" /\ cacheKey[t1] = cacheKey[t2]) =>
      ~(wrote[t1] > 0 /\ wrote[t2] > 0)

\* Whether every persistence task started for key k has returned, either at
\* the existence test or after a complete write and a successful time-set.
Settled(k) ==
  \A t \in TasksOf(k) :
    \/ tpc[t] = "exists"
    \/ tpc[t] = "saved" /\ wrote[t] = Len(tcp[t].Bytes)

\* C20: a task writes the entry it read from the cache, an entry added under
\* its key; a task that finds no entry writes nothing; and the file of a key
\* whose tasks have all returned without a failure has the bytes of one entry
\* added under the key and, as its times, that same entry's timestamp.
C20_FileIsOneEntry ==
  /\ \A t \in ReqIds :
       /\ tpc[t] \notin {"none", "get", "notInCache"} => tcp[t] \in history[cacheKey[t]]
       /\ tpc[t] = "notInCache" => wrote[t] = -1
  /\ \A k \in DOMAIN files :
       Settled(k) => \E e \in history[k] : files[k] = Mirror(e)

====
